---- MODULE Spec2Model ----
(***************************************************************************)
(* Model of inventory_final.py: a shoe inventory held in the process-wide  *)
(* list shoe_list and persisted to inventory.txt.                          *)
(*                                                                         *)
(* Text is a sequence of one-character strings, so that strip, split,      *)
(* upper and the numeric conversions are computed character by character.  *)
(* A file is a sequence of lines (each a text without its newline), and    *)
(* Absent when inventory.txt does not exist.                               *)
(***************************************************************************)
EXTENDS Integers, Sequences, FiniteSets, TLC

(***************************************************************************)
(* Bounds of the model.                                                    *)
(***************************************************************************)
MaxShoes == 3
MaxQuantity == 6
MaxFailures == 1

(***************************************************************************)
(* Text helpers: str.strip, str.upper, str.lower, str.split(","), join.    *)
(***************************************************************************)
IsSpace(c) == c \in {" ", "\t"}

RECURSIVE LStrip(_)
LStrip(s) ==
    IF s = <<>> THEN <<>>
    ELSE IF IsSpace(Head(s)) THEN LStrip(Tail(s)) ELSE s

RECURSIVE RStrip(_)
RStrip(s) ==
    IF s = <<>> THEN <<>>
    ELSE IF IsSpace(s[Len(s)]) THEN RStrip(SubSeq(s, 1, Len(s) - 1)) ELSE s

Strip(s) == RStrip(LStrip(s))

LowerLetters == <<"a", "b", "c", "d", "e", "f", "g", "h", "i", "j", "k", "l", "m",
                  "n", "o", "p", "q", "r", "s", "t", "u", "v", "w", "x", "y", "z">>
UpperLetters == <<"A", "B", "C", "D", "E", "F", "G", "H", "I", "J", "K", "L", "M",
                  "N", "O", "P", "Q", "R", "S", "T", "U", "V", "W", "X", "Y", "Z">>

UpperChar(c) ==
    IF \E i \in 1..Len(LowerLetters) : LowerLetters[i] = c
    THEN UpperLetters[CHOOSE i \in 1..Len(LowerLetters) : LowerLetters[i] = c]
    ELSE c

LowerChar(c) ==
    IF \E i \in 1..Len(UpperLetters) : UpperLetters[i] = c
    THEN LowerLetters[CHOOSE i \in 1..Len(UpperLetters) : UpperLetters[i] = c]
    ELSE c

Upper(s) == [i \in 1..Len(s) |-> UpperChar(s[i])]
Lower(s) == [i \in 1..Len(s) |-> LowerChar(s[i])]

\* s.split(","): the fields between commas; the empty text gives one empty field.
RECURSIVE SplitAcc(_, _, _)
SplitAcc(s, cur, acc) ==
    IF s = <<>> THEN Append(acc, cur)
    ELSE IF Head(s) = "," THEN SplitAcc(Tail(s), <<>>, Append(acc, cur))
    ELSE SplitAcc(Tail(s), Append(cur, Head(s)), acc)

Split(s) == SplitAcc(s, <<>>, <<>>)

HasComma(s) == \E i \in 1..Len(s) : s[i] = ","

(***************************************************************************)
(* Numbers.  A quantity is an integer.  A cost is an exact decimal         *)
(* num / 10^exp kept normalised (no trailing zero in the fraction), or the *)
(* float NaN.  Binary rounding of floats is not modelled; exponent         *)
(* notation, underscores and "inf" are outside the texts the model enters. *)
(***************************************************************************)
Digits == <<"0", "1", "2", "3", "4", "5", "6", "7", "8", "9">>
IsDigit(c) == \E i \in 1..10 : Digits[i] = c
DigitVal(c) == (CHOOSE i \in 1..10 : Digits[i] = c) - 1
AllDigits(s) == \A i \in 1..Len(s) : IsDigit(s[i])

RECURSIVE DigitsVal(_)
DigitsVal(s) ==
    IF s = <<>> THEN 0
    ELSE 10 * DigitsVal(SubSeq(s, 1, Len(s) - 1)) + DigitVal(s[Len(s)])

RECURSIVE NatText(_)
NatText(n) ==
    IF n < 10 THEN <<Digits[n + 1]>>
    ELSE Append(NatText(n \div 10), Digits[(n % 10) + 1])

\* str(int)
IntText(n) == IF n < 0 THEN <<"-">> \o NatText(0 - n) ELSE NatText(n)

RECURSIVE Pow10(_)
Pow10(k) == IF k = 0 THEN 1 ELSE 10 * Pow10(k - 1)

RECURSIVE Normalise(_, _)
Normalise(num, exp) ==
    IF exp > 0 /\ num % 10 = 0 THEN Normalise(num \div 10, exp - 1)
    ELSE [kind |-> "num", num |-> num, exp |-> exp]

NaN == [kind |-> "nan", num |-> 0, exp |-> 0]
Zero == Normalise(0, 0)

IsSign(c) == c \in {"+", "-"}
Unsigned(s) == IF s # <<>> /\ IsSign(Head(s)) THEN Tail(s) ELSE s
Negative(s) == s # <<>> /\ Head(s) = "-"

\* int(text): not ok when Python raises ValueError.
ParseInt(text) ==
    LET s == Strip(text)
        d == Unsigned(s)
    IN  IF d # <<>> /\ AllDigits(d)
        THEN [ok |-> TRUE, val |-> IF Negative(s) THEN 0 - DigitsVal(d) ELSE DigitsVal(d)]
        ELSE [ok |-> FALSE, val |-> 0]

\* float(text): digits with an optional point, or "nan"; not ok when Python
\* raises ValueError.
ParseFloat(text) ==
    LET s == Strip(text)
        d == Unsigned(s)
        parts == Split([i \in 1..Len(d) |-> IF d[i] = "." THEN "," ELSE d[i]])
        ip == parts[1]
        fp == IF Len(parts) = 2 THEN parts[2] ELSE <<>>
        mag == DigitsVal(ip) * Pow10(Len(fp)) + DigitsVal(fp)
    IN  IF Lower(d) = <<"n", "a", "n">>
        THEN [ok |-> TRUE, val |-> NaN]
        ELSE IF /\ ~HasComma(d)
                /\ Len(parts) <= 2
                /\ AllDigits(ip) /\ AllDigits(fp)
                /\ Len(ip) + Len(fp) > 0
        THEN [ok |-> TRUE,
              val |-> Normalise(IF Negative(s) THEN 0 - mag ELSE mag, Len(fp))]
        ELSE [ok |-> FALSE, val |-> Zero]

RECURSIVE PadZero(_, _)
PadZero(s, n) == IF Len(s) >= n THEN s ELSE PadZero(<<"0">> \o s, n)

\* f"{cost}": repr of a float.
FloatText(c) ==
    IF c.kind = "nan" THEN <<"n", "a", "n">>
    ELSE LET mag == IF c.num < 0 THEN 0 - c.num ELSE c.num
             sign == IF c.num < 0 THEN <<"-">> ELSE <<>>
             p == Pow10(c.exp)
         IN  sign \o NatText(mag \div p) \o <<".">> \o
             (IF c.exp = 0 THEN <<"0">> ELSE PadZero(NatText(mag % p), c.exp))

\* cost >= 0 on floats: false for NaN.
CostGeqZero(c) == c.kind = "num" /\ c.num >= 0

\* == on floats: NaN equals nothing, itself included.
NumEq(a, b) == a.kind = "num" /\ b.kind = "num" /\ a = b

(***************************************************************************)
(* class Shoe                                                              *)
(***************************************************************************)
\* float(cost) in Shoe.__init__, 0.0 on ValueError
CoerceCost(text) == IF ParseFloat(text).ok THEN ParseFloat(text).val ELSE Zero

\* int(quantity) in Shoe.__init__, 0 on ValueError
CoerceQuantity(text) == IF ParseInt(text).ok THEN ParseInt(text).val ELSE 0

\* Shoe(country, code, product, cost, quantity) with cost and quantity already
\* coerced: capture_shoes passes a float and an int, which float() and int()
\* leave alone; read_shoes_data passes texts, coerced by the two operators above.
Shoe(country, code, product, cost, quantity) ==
    [country |-> country, code |-> code, product |-> product,
     cost |-> cost, quantity |-> quantity]

\* The file line with the cost written as a whole number.
to_file_string_whole(shoe) ==
    shoe.country \o <<",">> \o shoe.code \o <<",">> \o shoe.product \o <<",">>
        \o (IF shoe.cost.kind = "nan" THEN <<"n", "a", "n">>
            ELSE IntText(shoe.cost.num \div Pow10(shoe.cost.exp)))
        \o <<",">> \o IntText(shoe.quantity)

to_file_string(shoe) ==
    shoe.country \o <<",">> \o shoe.code \o <<",">> \o shoe.product \o <<",">>
        \o FloatText(shoe.cost) \o <<",">> \o IntText(shoe.quantity)

\* f"{x:.2f}" of a float: two decimals, ties to even.
Fixed2(c) ==
    IF c.kind = "nan" THEN <<"n", "a", "n">>
    ELSE LET mag == IF c.num < 0 THEN 0 - c.num ELSE c.num
             cut == Pow10(IF c.exp > 2 THEN c.exp - 2 ELSE 0)
             q == mag \div cut
             r == mag % cut
             up == 2 * r > cut \/ (2 * r = cut /\ q % 2 = 1)
             hundredths == IF c.exp > 2 THEN (IF up THEN q + 1 ELSE q)
                           ELSE mag * Pow10(2 - c.exp)
             sign == IF c.num < 0 THEN <<"-">> ELSE <<>>
         IN  sign \o NatText(hundredths \div 100) \o <<".">>
                  \o PadZero(NatText(hundredths % 100), 2)

\* shoe.cost * shoe.quantity
Times(c, n) == IF c.kind = "nan" THEN NaN ELSE Normalise(c.num * n, c.exp)

(***************************************************************************)
(* inventory.txt                                                           *)
(***************************************************************************)
Absent == [exists |-> FALSE, lines |-> <<>>]
File(lines) == [exists |-> TRUE, lines |-> lines]

\* The header line, held as one symbol: the loader skips the first line
\* whatever it holds.
Header == <<"Country,Code,Product,Cost,Quantity">>

\* The lines written without the header.
FileContentNoHeader(list) == [i \in 1..Len(list) |-> to_file_string(list[i])]

\* The lines write_shoes_data writes: the header, then one line per shoe.
FileContent(list) == <<Header>> \o [i \in 1..Len(list) |-> to_file_string(list[i])]

\* What a write that fails after the file was opened (and so truncated) leaves:
\* the first k lines, followed or not by line k+1 cut short.  The failure points
\* taken are the line boundaries and one character before the end of a line.
Truncations(lines) ==
    { SubSeq(lines, 1, k) : k \in 0..(Len(lines) - 1) } \cup
    { Append(SubSeq(lines, 1, k), SubSeq(lines[k + 1], 1, Len(lines[k + 1]) - 1)) :
        k \in { i \in 0..(Len(lines) - 1) : Len(lines[i + 1]) > 1 } }

\* open(INVENTORY_FILE, "w") followed by the writes: all of it, none of it
\* (open raised), or part of it (a write raised).
WriteOutcomes(prev, lines, mayFail) ==
    {[status |-> "ok", file |-> File(lines)]} \cup
    (IF mayFail
     THEN {[status |-> "openfail", file |-> prev]} \cup
          {[status |-> "partial", file |-> File(t)] : t \in Truncations(lines)}
     ELSE {})

\* The loop leaving at the first malformed line instead of skipping it.
RECURSIVE ReadLinesStop(_)
ReadLinesStop(lines) ==
    IF lines = <<>> THEN <<>>
    ELSE LET data == Split(Strip(Head(lines)))
         IN  IF Len(data) = 5
             THEN <<Shoe(data[1], data[2], data[3],
                         CoerceCost(data[4]), CoerceQuantity(data[5]))>>
                      \o ReadLinesStop(Tail(lines))
             ELSE <<>>

\* The for loop of read_shoes_data over the lines after the header.
RECURSIVE ReadLines(_)
ReadLines(lines) ==
    IF lines = <<>> THEN <<>>
    ELSE LET data == Split(Strip(Head(lines)))
         IN  (IF Len(data) = 5
              THEN <<Shoe(data[1], data[2], data[3],
                          CoerceCost(data[4]), CoerceQuantity(data[5]))>>
              ELSE <<>>) \o ReadLines(Tail(lines))

\* The list read_shoes_data leaves in shoe_list.  A missing file gives the
\* empty list (FileNotFoundError), and so does a file without a first line
\* (next(f) raises StopIteration, caught by the last handler).
Loaded(f) ==
    IF ~f.exists THEN <<>>
    ELSE IF f.lines = <<>> THEN <<>>
    ELSE ReadLines(Tail(f.lines))

(***************************************************************************)
(* min(shoe_list, key=quantity) and max(shoe_list, key=quantity): a scan   *)
(* that keeps the first element and replaces it on a strictly smaller      *)
(* (larger) key.  The result is an index into the list.                    *)
(***************************************************************************)
RECURSIVE MinScan(_, _, _)
MinScan(list, i, best) ==
    IF i > Len(list) THEN best
    ELSE MinScan(list, i + 1,
                 IF list[i].quantity < list[best].quantity THEN i ELSE best)

\* The minimum taken as the last of the smallest, as a scan with <= gives.
MinIndexLast(list) ==
    CHOOSE i \in 1..Len(list) :
        /\ \A j \in 1..Len(list) : list[i].quantity <= list[j].quantity
        /\ \A j \in (i + 1)..Len(list) : list[j].quantity > list[i].quantity

MinIndex(list) == MinScan(list, 2, 1)

RECURSIVE MaxScan(_, _, _)
MaxScan(list, i, best) ==
    IF i > Len(list) THEN best
    ELSE MaxScan(list, i + 1,
                 IF list[i].quantity > list[best].quantity THEN i ELSE best)

MaxIndex(list) == MaxScan(list, 2, 1)

\* The for loop of search_shoe: the index of the first shoe with the code, 0 if none.
RECURSIVE FindFrom(_, _, _)
FindFrom(list, code, i) ==
    IF i > Len(list) THEN 0
    ELSE IF list[i].code = code THEN i
    ELSE FindFrom(list, code, i + 1)

\* The search loop without its break: the last shoe with the code.
FindCodeLast(list, code) ==
    IF \E i \in 1..Len(list) : list[i].code = code
    THEN CHOOSE i \in 1..Len(list) :
            /\ list[i].code = code
            /\ \A j \in (i + 1)..Len(list) : list[j].code # code
    ELSE 0

FindCode(list, code) == FindFrom(list, code, 1)

\* The duplicate check looking at the first shoe only.
CodeExistsFirstOnly(list, code) == list # <<>> /\ list[1].code = code

\* any(shoe.code == code for shoe in shoe_list)
CodeExists(list, code) == \E i \in 1..Len(list) : list[i].code = code

\* table_data of view_all
ViewRows(list) ==
    [i \in 1..Len(list) |->
        <<list[i].country, list[i].code, list[i].product,
          Fixed2(list[i].cost), list[i].quantity>>]

\* table_data of value_per_item
ValueRows(list) ==
    [i \in 1..Len(list) |->
        <<list[i].code, list[i].product, Fixed2(list[i].cost), list[i].quantity,
          Fixed2(Times(list[i].cost, list[i].quantity))>>]

(***************************************************************************)
(* Inputs: the files the program may find at start and the texts the user  *)
(* may type.                                                               *)
(***************************************************************************)
LineGood     == <<"u", ",", "A", ",", "p", ",", "1", ".", "5", ",", "2">>
LinePadded   == <<" ", "v", " ", ",", "a", ",", " ", "q", ",", "2", ",", " ", "2", " ">>
LineFour     == <<"u", ",", "B", ",", "p", ",", "1">>
LineBadNums  == <<"u", ",", "B", ",", "p", ",", "x", ",", "2", ".", "0">>
LineNegative == <<"u", ",", "C", ",", "p", ",", "-", "1", ",", "-", "3">>
LineNaN      == <<"w", ",", "A", ",", "p", ",", "n", "a", "n", ",", "5">>
LineBlank    == <<>>

InitFiles ==
    {Absent,
     File(<<>>),
     File(<<Header>>),
     File(<<Header, LineGood, LineFour, LinePadded>>),
     File(<<Header, LineNaN, LineGood, LinePadded>>),
     File(<<Header, LineBadNums, LineNegative>>),
     File(<<Header, LineBlank, LineGood>>)}

MenuInputs == {<<"0">>, <<"1">>, <<" ", "2">>, <<"3">>, <<"4">>, <<"5">>, <<"6">>,
               <<"7", " ">>, <<"8">>, <<>>}
CountryInputs == {<<"u">>, <<" ">>, <<"u", ",", "x">>}
CodeInputs == {<<"a">>, <<" ", "B">>, <<>>}
ProductInputs == {<<"p">>, <<>>}
CostInputs == {<<"1", ".", "5">>, <<"-", "1">>, <<"x">>, <<"n", "a", "n">>}
QuantityInputs == {<<"2">>, <<"-", "1">>, <<"x">>}
ChoiceInputs == {<<"Y">>, <<"y", "e", "s">>, <<"n">>, <<"N", "o", " ">>, <<"z">>}
AmountInputs == {<<"3">>, <<"0">>, <<"-", "1">>, <<"x">>}
SearchInputs == {<<"a">>, <<" ", "A">>, <<"z">>}

(***************************************************************************)
(* State                                                                   *)
(***************************************************************************)
VARIABLES
    installed,    \* the tabulate package is installed
    asScript,     \* the file is run as a script (else imported, main_menu called)
    pc,           \* where the program is: "boot", "loaded", "menu", a prompt,
                  \* "pause" (Press Enter to continue), "exited", or "crashed"
                  \* after an uncaught exception
    tabulate,     \* what the global name tabulate is bound to
    shoe_list,    \* the global shoe_list
    file,         \* inventory.txt
    loc,          \* locals of the running capture_shoes / re_stock
    out,          \* what the last step reported
    before,       \* shoe_list and file when the running menu operation began
    lastWrite,    \* how write_shoes_data ended in this operation, "none" if not called
    failures,     \* the writes to the file that failed so far
    commaEntered  \* a captured field held a comma

vars == <<installed, asScript, pc, tabulate, shoe_list, file, loc, out, before,
          lastWrite, failures, commaEntered>>

NoLoc == [country |-> <<>>, code |-> <<>>, product |-> <<>>, cost |-> Zero,
          min_shoe |-> 0]

Out(op, idx, key, amt, rows) ==
    [op |-> op, idx |-> idx, key |-> key, amt |-> amt, rows |-> rows]

Say(op) == Out(op, 0, <<>>, 0, <<>>)

Init ==
    /\ installed \in BOOLEAN
    /\ asScript \in BOOLEAN
    /\ pc = "boot"
    /\ tabulate = "unbound"
    /\ shoe_list = <<>>
    /\ file \in InitFiles
    /\ loc = NoLoc
    /\ out = Say("menu")
    /\ before = [list |-> <<>>, file |-> file]
    /\ lastWrite = "none"
    /\ failures = 0
    /\ commaEntered = FALSE

(***************************************************************************)
(* read_shoes_data and write_shoes_data, as the steps that call them use   *)
(* them.  A write may fail while fewer than MaxFailures writes have failed.*)
(***************************************************************************)
read_shoes_data ==
    /\ shoe_list' = Loaded(file)
    /\ IF file.exists
       THEN UNCHANGED <<file, failures>>
       ELSE \E o \in WriteOutcomes(file, <<Header>>, failures < MaxFailures) :
               /\ file' = o.file
               /\ failures' = IF o.status = "ok" THEN failures ELSE failures + 1

\* The save done with the list as it was before the change.
write_shoes_data_before(list) ==
    \E o \in WriteOutcomes(file, FileContent(shoe_list), failures < MaxFailures) :
        /\ file' = o.file
        /\ lastWrite' = o.status
        /\ failures' = IF o.status = "ok" THEN failures ELSE failures + 1

write_shoes_data(list) ==
    \E o \in WriteOutcomes(file, FileContent(list), failures < MaxFailures) :
        /\ file' = o.file
        /\ lastWrite' = o.status
        /\ failures' = IF o.status = "ok" THEN failures ELSE failures + 1

Chosen(d) == \E c \in MenuInputs : Strip(c) = <<d>>

\* Every menu operation starts from the menu prompt.
Begin ==
    /\ pc = "menu"
    /\ before' = [list |-> shoe_list, file |-> file]

(***************************************************************************)
(* Start of the process                                                    *)
(***************************************************************************)
\* Lines 1-2: "from tabulate import tabulate" binds the name to the function,
\* or raises ImportError, which nothing catches.
ModuleImports ==
    /\ pc = "boot"
    /\ IF installed
       THEN /\ tabulate' = "function"
            /\ pc' = "loaded"
            /\ out' = out
       ELSE /\ tabulate' = tabulate
            /\ pc' = "crashed"
            /\ out' = Say("ImportError")
    /\ UNCHANGED <<installed, asScript, shoe_list, file, loc, before, lastWrite,
                   failures, commaEntered>>

\* What the __main__ block leaves in the global name tabulate: "import tabulate"
\* rebinds it to the module; the except branch defines the fallback function.
MainBlockBinding(inst) == IF inst THEN "module" ELSE "fallback"

\* The __main__ block, then main_menu up to its first prompt.
MainBlock ==
    /\ pc = "loaded"
    /\ asScript
    /\ tabulate' = MainBlockBinding(installed)
    /\ read_shoes_data
    /\ pc' = "menu"
    /\ out' = Say("loaded")
    /\ before' = [list |-> shoe_list, file |-> file]
    /\ UNCHANGED <<installed, asScript, loc, lastWrite, commaEntered>>

\* main_menu called by an importer of the module, up to its first prompt.
CallMainMenu ==
    /\ pc = "loaded"
    /\ ~asScript
    /\ read_shoes_data
    /\ pc' = "menu"
    /\ out' = Say("loaded")
    /\ before' = [list |-> shoe_list, file |-> file]
    /\ UNCHANGED <<installed, asScript, tabulate, loc, lastWrite, commaEntered>>

(***************************************************************************)
(* Menu operations without prompts of their own                            *)
(***************************************************************************)
\* print(tabulate(table_data, ...)): calling the module raises TypeError,
\* which nothing catches.
Tabulate(op, rows) ==
    IF tabulate = "module"
    THEN /\ pc' = "crashed"
         /\ out' = Say("TypeError")
    ELSE /\ pc' = "pause"
         /\ out' = Out(op, 0, <<>>, 0, rows)

view_all ==
    /\ Begin
    /\ Chosen("1")
    /\ IF shoe_list = <<>>
       THEN /\ pc' = "pause"
            /\ out' = Say("empty")
       ELSE Tabulate("view_all", ViewRows(shoe_list))
    /\ lastWrite' = "none"
    /\ UNCHANGED <<installed, asScript, tabulate, shoe_list, file, loc, failures,
                   commaEntered>>

value_per_item ==
    /\ Begin
    /\ Chosen("5")
    /\ IF shoe_list = <<>>
       THEN /\ pc' = "pause"
            /\ out' = Say("empty")
       ELSE Tabulate("value_per_item", ValueRows(shoe_list))
    /\ lastWrite' = "none"
    /\ UNCHANGED <<installed, asScript, tabulate, shoe_list, file, loc, failures,
                   commaEntered>>

search_shoe ==
    /\ Begin
    /\ Chosen("4")
    /\ IF shoe_list = <<>>
       THEN out' = Say("empty")
       ELSE \E k \in SearchInputs :
               LET search_code == Upper(Strip(k))
                   found == FindCode(shoe_list, search_code)
               IN  out' = Out(IF found > 0 THEN "found" ELSE "not_found",
                              found, k, 0, <<>>)
    /\ pc' = "pause"
    /\ lastWrite' = "none"
    /\ UNCHANGED <<installed, asScript, tabulate, shoe_list, file, loc, failures,
                   commaEntered>>

highest_qty ==
    /\ Begin
    /\ Chosen("6")
    /\ IF shoe_list = <<>>
       THEN out' = Say("empty")
       ELSE out' = Out("for_sale", MaxIndex(shoe_list), <<>>, 0, <<>>)
    /\ pc' = "pause"
    /\ lastWrite' = "none"
    /\ UNCHANGED <<installed, asScript, tabulate, shoe_list, file, loc, failures,
                   commaEntered>>

\* Menu choice 7
Reload ==
    /\ Begin
    /\ Chosen("7")
    /\ read_shoes_data
    /\ pc' = "pause"
    /\ out' = Say("reloaded")
    /\ lastWrite' = "none"
    /\ UNCHANGED <<installed, asScript, tabulate, loc, commaEntered>>

\* Menu choice 0
Exit ==
    /\ pc = "menu"
    /\ Chosen("0")
    /\ pc' = "exited"
    /\ out' = Say("goodbye")
    /\ UNCHANGED <<installed, asScript, tabulate, shoe_list, file, loc, before,
                   lastWrite, failures, commaEntered>>

\* Any other menu input
InvalidChoice ==
    /\ pc = "menu"
    /\ \E c \in MenuInputs :
          Strip(c) \notin {<<"0">>, <<"1">>, <<"2">>, <<"3">>, <<"4">>, <<"5">>,
                           <<"6">>, <<"7">>}
    /\ pc' = "pause"
    /\ out' = Say("invalid_choice")
    /\ UNCHANGED <<installed, asScript, tabulate, shoe_list, file, loc, before,
                   lastWrite, failures, commaEntered>>

\* Line 389: Enter is pressed and the menu is printed again.
Continue ==
    /\ pc = "pause"
    /\ pc' = "menu"
    /\ out' = Say("menu")
    /\ before' = [list |-> shoe_list, file |-> file]
    /\ lastWrite' = "none"
    /\ UNCHANGED <<installed, asScript, tabulate, shoe_list, file, loc, failures,
                   commaEntered>>

(***************************************************************************)
(* capture_shoes: one step per prompt; the last step appends and saves.    *)
(* An input that is refused prints a message and the prompt is shown       *)
(* again; only the refusal of a duplicate code is recorded in out.         *)
(***************************************************************************)
\* Menu choice 2, up to the country prompt.  The guard bounds the list.
CaptureBegin ==
    /\ Begin
    /\ Chosen("2")
    /\ Len(shoe_list) < MaxShoes
    /\ pc' = "cap_country"
    /\ loc' = NoLoc
    /\ out' = Say("capture")
    /\ lastWrite' = "none"
    /\ UNCHANGED <<installed, asScript, tabulate, shoe_list, file, failures,
                   commaEntered>>

CaptureCountry ==
    /\ pc = "cap_country"
    /\ \E t \in CountryInputs :
          LET country == Strip(t)
          IN  IF country # <<>>
              THEN /\ loc' = [loc EXCEPT !.country = country]
                   /\ pc' = "cap_code"
                   /\ out' = Say("capture")
              ELSE UNCHANGED <<loc, pc, out>>
    /\ UNCHANGED <<installed, asScript, tabulate, shoe_list, file, before, lastWrite,
                   failures, commaEntered>>

CaptureCode ==
    /\ pc = "cap_code"
    /\ \E t \in CodeInputs :
          LET code == Upper(Strip(t))
          IN  IF code = <<>>
              THEN UNCHANGED <<loc, pc, out>>
              ELSE IF CodeExists(shoe_list, code)
              THEN /\ out' = Out("code_rejected", 0, t, 0, <<>>)
                   /\ UNCHANGED <<loc, pc>>
              ELSE /\ loc' = [loc EXCEPT !.code = code]
                   /\ pc' = "cap_product"
                   /\ out' = Say("capture")
    /\ UNCHANGED <<installed, asScript, tabulate, shoe_list, file, before, lastWrite,
                   failures, commaEntered>>

CaptureProduct ==
    /\ pc = "cap_product"
    /\ \E t \in ProductInputs :
          LET product == Strip(t)
          IN  IF product # <<>>
              THEN /\ loc' = [loc EXCEPT !.product = product]
                   /\ pc' = "cap_cost"
                   /\ out' = Say("capture")
              ELSE UNCHANGED <<loc, pc, out>>
    /\ UNCHANGED <<installed, asScript, tabulate, shoe_list, file, before, lastWrite,
                   failures, commaEntered>>

CaptureCost ==
    /\ pc = "cap_cost"
    /\ \E t \in CostInputs :
          LET cost == ParseFloat(Strip(t))
          IN  IF cost.ok /\ CostGeqZero(cost.val)
              THEN /\ loc' = [loc EXCEPT !.cost = cost.val]
                   /\ pc' = "cap_quantity"
                   /\ out' = Say("capture")
              ELSE UNCHANGED <<loc, pc, out>>
    /\ UNCHANGED <<installed, asScript, tabulate, shoe_list, file, before, lastWrite,
                   failures, commaEntered>>

\* The quantity prompt and, once it is answered, lines 185-191.
CaptureQuantity ==
    /\ pc = "cap_quantity"
    /\ \E t \in QuantityInputs :
          LET quantity == ParseInt(Strip(t))
              new_shoe == Shoe(loc.country, loc.code, loc.product, loc.cost,
                               quantity.val)
          IN  IF quantity.ok /\ quantity.val >= 0
              THEN /\ shoe_list' = Append(shoe_list, new_shoe)
                   /\ write_shoes_data(Append(shoe_list, new_shoe))
                   /\ out' = Out("captured", Len(shoe_list) + 1, loc.code, 0, <<>>)
                   /\ commaEntered' =
                          (commaEntered \/ HasComma(loc.country)
                              \/ HasComma(loc.code) \/ HasComma(loc.product))
                   /\ loc' = NoLoc
                   /\ pc' = "pause"
              ELSE UNCHANGED <<loc, pc, out, shoe_list, file, lastWrite, failures,
                               commaEntered>>
    /\ UNCHANGED <<installed, asScript, tabulate, before>>

(***************************************************************************)
(* re_stock: the search for the minimum, then one step per prompt.         *)
(***************************************************************************)
\* Menu choice 3, up to the yes/no prompt.
ReStockBegin ==
    /\ Begin
    /\ Chosen("3")
    /\ IF shoe_list = <<>>
       THEN /\ pc' = "pause"
            /\ loc' = loc
            /\ out' = Say("empty")
       ELSE /\ pc' = "restock_choice"
            /\ loc' = [NoLoc EXCEPT !.min_shoe = MinIndex(shoe_list)]
            /\ out' = Out("min_shoe", MinIndex(shoe_list), <<>>, 0, <<>>)
    /\ lastWrite' = "none"
    /\ UNCHANGED <<installed, asScript, tabulate, shoe_list, file, failures,
                   commaEntered>>

ReStockChoice ==
    /\ pc = "restock_choice"
    /\ \E t \in ChoiceInputs :
          LET choice == Lower(Strip(t))
          IN  IF choice \in {<<"y", "e", "s">>, <<"y">>}
              THEN /\ pc' = "restock_qty"
                   /\ out' = Out("min_shoe", loc.min_shoe, <<>>, 0, <<>>)
                   /\ loc' = loc
              ELSE IF choice \in {<<"n", "o">>, <<"n">>}
              THEN /\ pc' = "pause"
                   /\ out' = Out("restock_declined", loc.min_shoe, <<>>, 0, <<>>)
                   /\ loc' = NoLoc
              ELSE UNCHANGED <<loc, pc, out>>
    /\ UNCHANGED <<installed, asScript, tabulate, shoe_list, file, before, lastWrite,
                   failures, commaEntered>>

\* The amount prompt and, once it is answered, lines 250-256.  The guard
\* bounds the quantities.
ReStockAmount ==
    /\ pc = "restock_qty"
    /\ \E t \in AmountInputs :
          LET add_qty == ParseInt(Strip(t))
              m == loc.min_shoe
              restocked == [shoe_list EXCEPT ![m].quantity = @ + add_qty.val]
          IN  IF add_qty.ok /\ add_qty.val >= 0
              THEN /\ shoe_list[m].quantity + add_qty.val <= MaxQuantity
                   /\ shoe_list' = restocked
                   /\ write_shoes_data(restocked)
                   /\ out' = Out("restocked", m, <<>>, add_qty.val, <<>>)
                   /\ loc' = NoLoc
                   /\ pc' = "pause"
              ELSE UNCHANGED <<loc, pc, out, shoe_list, file, lastWrite, failures>>
    /\ UNCHANGED <<installed, asScript, tabulate, before, commaEntered>>

(***************************************************************************)
(* The program                                                             *)
(***************************************************************************)
Next ==
    \/ ModuleImports
    \/ MainBlock
    \/ CallMainMenu
    \/ view_all
    \/ CaptureBegin
    \/ CaptureCountry
    \/ CaptureCode
    \/ CaptureProduct
    \/ CaptureCost
    \/ CaptureQuantity
    \/ ReStockBegin
    \/ ReStockChoice
    \/ ReStockAmount
    \/ search_shoe
    \/ value_per_item
    \/ highest_qty
    \/ Reload
    \/ Exit
    \/ InvalidChoice
    \/ Continue

Spec == Init /\ [][Next]_vars

TypeOK ==
    /\ pc \in {"boot", "loaded", "menu", "cap_country", "cap_code", "cap_product",
               "cap_cost", "cap_quantity", "restock_choice", "restock_qty",
               "pause", "exited", "crashed"}
    /\ tabulate \in {"unbound", "function", "module", "fallback"}
    /\ Len(shoe_list) <= MaxShoes
    /\ failures <= MaxFailures

(***************************************************************************)
(* Properties                                                              *)
(***************************************************************************)
NoCommaIn(list) ==
    \A i \in 1..Len(list) :
        ~HasComma(list[i].country) /\ ~HasComma(list[i].code) /\ ~HasComma(list[i].product)

NoNaNIn(list) == \A i \in 1..Len(list) : list[i].cost.kind = "num"

\* Same length, same order, texts equal, cost and quantity equal as numbers.
SameRecords(a, b) ==
    /\ Len(a) = Len(b)
    /\ \A i \in 1..Len(a) :
          /\ a[i].country = b[i].country
          /\ a[i].code = b[i].code
          /\ a[i].product = b[i].product
          /\ NumEq(a[i].cost, b[i].cost)
          /\ a[i].quantity = b[i].quantity

C2_DuplicateCodeRejected ==
    /\ out.op = "code_rejected" =>
          /\ pc = "cap_code"
          /\ \E i \in 1..Len(shoe_list) : shoe_list[i].code = Upper(Strip(out.key))
          /\ shoe_list = before.list
          /\ file = before.file
    /\ pc \in {"cap_product", "cap_cost", "cap_quantity"} =>
          \A i \in 1..Len(shoe_list) : shoe_list[i].code # loc.code
    /\ out.op = "captured" =>
          /\ Len(shoe_list) = Len(before.list) + 1
          /\ SubSeq(shoe_list, 1, Len(before.list)) = before.list
          /\ \A i \in 1..Len(before.list) :
                before.list[i].code # shoe_list[Len(shoe_list)].code

C2_Witness ==
    /\ out.op = "code_rejected"
    /\ out.key = <<"a">>
    /\ \E i \in 1..Len(shoe_list) : shoe_list[i].code = <<"A">>

\* C3: re_stock targets the lowest-index shoe among those of minimum quantity;
\* on yes and an amount n >= 0 that shoe's quantity grows by n and nothing else
\* of the list changes; on no, list and file stay as they were.
C3_RestockTarget ==
    /\ out.op \in {"min_shoe", "restocked", "restock_declined"} =>
          /\ out.idx \in 1..Len(before.list)
          /\ \A j \in 1..Len(before.list) :
                before.list[out.idx].quantity <= before.list[j].quantity
          /\ \A j \in 1..(out.idx - 1) :
                before.list[j].quantity > before.list[out.idx].quantity
    /\ out.op = "restocked" =>
          /\ out.amt >= 0
          /\ Len(shoe_list) = Len(before.list)
          /\ shoe_list[out.idx] =
                [before.list[out.idx] EXCEPT !.quantity = @ + out.amt]
          /\ \A j \in 1..Len(shoe_list) : j # out.idx => shoe_list[j] = before.list[j]
    /\ out.op = "restock_declined" =>
          /\ shoe_list = before.list
          /\ file = before.file

C3_Witness ==
    /\ out.op = "restocked"
    /\ out.idx = 2
    /\ out.amt = 3
    /\ Len(before.list) = 3
    /\ before.list[2].quantity = before.list[3].quantity
    /\ before.list[1].quantity > before.list[2].quantity

\* The lines after the header that split into five fields, and the k-th of them.
FiveFieldLines(lines) == {i \in 1..Len(lines) : Len(Split(lines[i])) = 5}

KthFiveField(lines, k) ==
    CHOOSE i \in FiveFieldLines(lines) :
        Cardinality({j \in FiveFieldLines(lines) : j <= i}) = k

\* C4: read_shoes_data of an existing file gives, in file order, one shoe per
\* line after the header that splits into five fields, the other lines being
\* skipped; a cost or quantity that does not parse is 0 and the other fields
\* of the shoe are those of the line.
C4_LoadFiveFieldLines ==
    (out.op \in {"loaded", "reloaded"} /\ before.file.exists /\ before.file.lines # <<>>) =>
        LET lines == Tail(before.file.lines)
        IN  /\ Len(shoe_list) = Cardinality(FiveFieldLines(lines))
            /\ \A k \in 1..Len(shoe_list) :
                  LET data == Split(Strip(lines[KthFiveField(lines, k)]))
                  IN  /\ shoe_list[k].country = data[1]
                      /\ shoe_list[k].code = data[2]
                      /\ shoe_list[k].product = data[3]
                      /\ shoe_list[k].cost =
                            (IF ParseFloat(data[4]).ok THEN ParseFloat(data[4]).val
                             ELSE Zero)
                      /\ shoe_list[k].quantity =
                            (IF ParseInt(data[5]).ok THEN ParseInt(data[5]).val ELSE 0)

C4_Witness ==
    /\ out.op = "reloaded"
    /\ before.file = File(<<Header, LineGood, LineFour, LinePadded>>)
    /\ Len(shoe_list) = 2
    /\ shoe_list[2].country = <<"v", " ">>
    /\ shoe_list[2].quantity = 2

\* C5 as stated: run as a script with tabulate installed, list-all and
\* value-per-item on a non-empty list show one row per shoe and the program
\* goes on; no menu operation ends the process with an uncaught error.
C5_ScriptRendersTables ==
    (asScript /\ installed) =>
        /\ pc # "crashed"
        /\ out.op \in {"view_all", "value_per_item"} => Len(out.rows) = Len(shoe_list)

\* C6 as stated: run as a script without tabulate installed, the program
\* still starts and reaches the menu, the reports using the fallback formatter.
C6_StartsWithoutTabulate ==
    (asScript /\ ~installed) =>
        (pc # "crashed" /\ (pc = "menu" => tabulate = "fallback"))

IsTextPrefix(a, b) == Len(a) <= Len(b) /\ SubSeq(b, 1, Len(a)) = a

IsLinesPrefix(ls, full) ==
    /\ Len(ls) <= Len(full)
    /\ \A i \in 1..Len(ls) :
          IF i < Len(ls) THEN ls[i] = full[i] ELSE IsTextPrefix(ls[i], full[i])

\* The header followed by one line per shoe of the list, in its order.
Complete(list) == <<Header>> \o [i \in 1..Len(list) |-> to_file_string(list[i])]

\* C7 as stated: after a save attempt the file holds its complete previous
\* content or the complete new content.
C7_AtomicSave ==
    lastWrite # "none" =>
        (file = before.file \/ file = File(Complete(shoe_list)))

\* C7 amended: after a save that succeeds the file holds the complete new
\* content; after one that fails it holds its previous content (the open
\* failed) or a beginning of the new content, possibly empty or cut inside a
\* line (a write failed after the open truncated the file).
C7_SaveOutcome ==
    /\ lastWrite = "ok" => file = File(Complete(shoe_list))
    /\ lastWrite = "openfail" => file = before.file
    /\ lastWrite = "partial" =>
          /\ file.exists
          /\ IsLinesPrefix(file.lines, Complete(shoe_list))
          /\ file.lines # Complete(shoe_list)

C7_Witness ==
    /\ lastWrite = "partial"
    /\ Len(file.lines) >= 2
    /\ file.lines[Len(file.lines)] # Complete(shoe_list)[Len(file.lines)]
    /\ file # before.file

\* C8: search_shoe gives the lowest-index shoe whose code equals the query
\* trimmed and uppercased, or not-found when no code equals it; list and file
\* stay as they were.
C8_SearchFirstMatch ==
    out.op \in {"found", "not_found"} =>
        LET k == Upper(Strip(out.key))
        IN  /\ out.op = "found" =>
                  /\ out.idx \in 1..Len(shoe_list)
                  /\ shoe_list[out.idx].code = k
                  /\ \A j \in 1..(out.idx - 1) : shoe_list[j].code # k
            /\ out.op = "not_found" =>
                  /\ out.idx = 0
                  /\ \A j \in 1..Len(shoe_list) : shoe_list[j].code # k
            /\ shoe_list = before.list
            /\ file = before.file

C8_Witness ==
    /\ out.op = "found"
    /\ out.key = <<"a">>
    /\ out.idx = 1
    /\ \E j \in 2..Len(shoe_list) : shoe_list[j].code = <<"A">>

\* C9 as stated: every shoe of the list has cost >= 0 and quantity >= 0 (a
\* NaN cost is left aside here).
C9_NonNegative ==
    \A i \in 1..Len(shoe_list) :
        /\ shoe_list[i].cost.num >= 0
        /\ shoe_list[i].quantity >= 0

\* C10: at the menu, when no write has failed and no captured field held a
\* comma, the file reads back as the list in memory, so that Reload leaves the
\* list as it is.
C10_FileReflectsMemory ==
    (pc = "menu" /\ failures = 0 /\ ~commaEntered) => Loaded(file) = shoe_list

C10_Witness ==
    /\ pc = "menu"
    /\ failures = 0
    /\ ~commaEntered
    /\ Len(shoe_list) = 3
    /\ file = File(Complete(shoe_list))
    /\ \E i \in 1..3 : shoe_list[i].quantity > 2

====
